---------------------------- MODULE Spec2Model ----------------------------
(***************************************************************************)
(* A model of three parts of chain-impl-mockchain:                         *)
(*   stake/delegation.rs      the persistent stake-pool registry           *)
(*   block/header.rs          the block header, its framing and its proof  *)
(*   certificate/vote_tally.rs  the vote-tally certificate and its proof   *)
(* Byte buffers are sequences of naturals in 0..255.                       *)
(***************************************************************************)
EXTENDS Integers, Sequences, FiniteSets, TLC

VARIABLES
    snapshots,   \* every DelegationState value some branch still holds
    origin,      \* origin[i]: the snapshot snapshots[i] was derived from (0: new())
    lastOp       \* the last registry call: receiver, argument, returned Result,
                 \* the receiver's value and the number of snapshots before it

VARIABLES
    pc,          \* where the header under test is: start, built, wire, decoded, verified
    header,      \* the Header value in memory
    mutations,   \* how many fields of it were changed after it was built
    produced,    \* what the block producer signed: key, Common, signature
    signed,      \* every signature issued so far: the key and the message bytes
    buf,         \* the bytes on the wire
    tampered,    \* what happened to the bytes since Header::serialize wrote them
    result,      \* what Header::deserialize made of buf
    verdict      \* what Header::verify_proof returned

VARIABLES
    tallyPc,       \* where the tally under test is: start, built, wire, read,
                   \* or its proof: proved, verified
    tally,         \* the VoteTally value in memory
    tallyBuf,      \* its bytes on the wire
    tallyTampered, \* what happened to them since VoteTally::serialize
    tallyRead,     \* what VoteTally::read made of tallyBuf
    tallyProof,    \* the TallyProof value in memory
    tallyArgs,     \* the tally type and binding data verify was called with
    tallyVerdict   \* what TallyProof::verify returned

VARIABLES
    proofPc,       \* where the tally proof on the wire is: start, built, wire, read
    proofValue,    \* the TallyProof value whose bytes are sent
    proofBuf,      \* the bytes on the wire
    proofWriter,   \* who framed them: serialize_in, or a peer with a one-byte count
    proofTampered, \* what happened to them since they were written
    proofRead      \* what TallyProof::read made of proofBuf

delegationVars == <<snapshots, origin, lastOp>>
headerVars == <<pc, header, mutations, produced, buf, tampered, result, verdict>>
tallyVars == <<tallyPc, tally, tallyBuf, tallyTampered, tallyRead, tallyProof,
               tallyArgs, tallyVerdict>>
proofVars == <<proofPc, proofValue, proofBuf, proofWriter, proofTampered, proofRead>>
vars == <<delegationVars, headerVars, signed, tallyVars, proofVars>>
otherThanDelegation == <<headerVars, signed, tallyVars, proofVars>>
otherThanHeader == <<delegationVars, tallyVars, proofVars>>
otherThanTally == <<delegationVars, headerVars, proofVars>>
otherThanProof == <<delegationVars, headerVars, signed, tallyVars>>

-----------------------------------------------------------------------------
(* Bounds of the model.                                                    *)

\* how many DelegationState values the branches keep alive at once
MaxSnapshots == 4
\* how many distinct StakePoolInfo values certificates may carry
NumPoolInfos == 3
\* how many distinct StakePoolId values exist (fewer than infos: ids collide)
NumPoolIds == 2
\* how many signing keys (BFT leaders, KES keys) exist
NumKeys == 2
\* how many fields of a header may be changed after it was built
MaxMutations == 1
\* how many decryption shares a private tally proof may carry
MaxShares == 2
\* how many bytes one serialized decryption share takes
ShareSize == 2

-----------------------------------------------------------------------------
(* Result<T, E> and Option<T>.                                             *)

Ok(v) == [ok |-> TRUE, value |-> v]
Err(e) == [ok |-> FALSE, err |-> e]

-----------------------------------------------------------------------------
(* stake/delegation.rs                                                     *)

StakePoolInfos == 1..NumPoolInfos
StakePoolIds == 0..(NumPoolIds - 1)

\* StakePoolInfo::to_id: a digest of the info.
to_id(owner) == owner % NumPoolIds

\* imhamt::Hamt as a finite map: a function whose domain is the key set.
Hamt_new == <<>>

Hamt_lookup(map, k) == IF k \in DOMAIN map THEN {map[k]} ELSE {}

Hamt_insert(map, k, v) ==
    IF k \in DOMAIN map
    THEN Err("InsertError::EntryExists")
    ELSE Ok([x \in (DOMAIN map) \cup {k} |-> IF x = k THEN v ELSE map[x]])

Hamt_remove(map, k) ==
    IF k \in DOMAIN map
    THEN Ok([x \in (DOMAIN map) \ {k} |-> map[x]])
    ELSE Err("RemoveError::KeyNotFound")

StakePoolAlreadyExists(id) == [kind |-> "StakePoolAlreadyExists", id |-> id]
StakePoolDoesNotExist(id) == [kind |-> "StakePoolDoesNotExist", id |-> id]

DelegationState_new == [stake_pools |-> Hamt_new]

stake_pool_exists(self, pool_id) ==
    Hamt_lookup(self.stake_pools, pool_id) # {}

\* A call through &self: `self` is the receiver as the call leaves it, `ret`
\* the returned Result.
Call(self, ret) == [self |-> self, ret |-> ret]

\* A register that inserts into the receiver's own table and hands back a copy.
register_stake_pool_in_place(self, owner) ==
    LET id == to_id(owner)
        new_pools == Hamt_insert(self.stake_pools, id, owner)
    IN  IF new_pools.ok
        THEN Call([stake_pools |-> new_pools.value],
                  Ok([stake_pools |-> new_pools.value]))
        ELSE Call(self, Err(StakePoolAlreadyExists(id)))

\* A register with overwrite semantics: a taken id gets the new info.
register_stake_pool_overwrite(self, owner) ==
    LET id == to_id(owner)
    IN  Call(self,
             Ok([stake_pools |->
                   [x \in (DOMAIN self.stake_pools) \cup {id} |->
                       IF x = id THEN owner ELSE self.stake_pools[x]]]))

register_stake_pool(self, owner) ==
    LET id == to_id(owner)
        new_pools == Hamt_insert(self.stake_pools, id, owner)
    IN  IF new_pools.ok
        THEN Call(self, Ok([stake_pools |-> new_pools.value]))
        ELSE Call(self, Err(StakePoolAlreadyExists(id)))

\* A deregister that clears the whole table instead of one entry.
deregister_stake_pool_clear(self, pool_id) ==
    IF pool_id \in DOMAIN self.stake_pools
    THEN Call(self, Ok([stake_pools |-> Hamt_new]))
    ELSE Call(self, Err(StakePoolDoesNotExist(pool_id)))

deregister_stake_pool(self, pool_id) ==
    LET removed == Hamt_remove(self.stake_pools, pool_id)
    IN  IF removed.ok
        THEN Call(self, Ok([stake_pools |-> removed.value]))
        ELSE Call(self, Err(StakePoolDoesNotExist(pool_id)))

NoInfo == 0

\* What a registry call leaves behind: the receiver keeps what the call left
\* of it, and an Ok result is a new snapshot some branch now holds.
Applied(i, call) ==
    /\ call.ret.ok => Len(snapshots) < MaxSnapshots
    /\ snapshots' = IF call.ret.ok
                    THEN Append([snapshots EXCEPT ![i] = call.self], call.ret.value)
                    ELSE [snapshots EXCEPT ![i] = call.self]
    /\ origin' = IF call.ret.ok THEN Append(origin, i) ELSE origin

RegisterStakePool(i, owner) ==
    LET call == register_stake_pool(snapshots[i], owner)
    IN  /\ Applied(i, call)
        /\ lastOp' = [op |-> "register", on |-> i, before |-> snapshots[i],
                      owner |-> owner, pool_id |-> to_id(owner), ret |-> call.ret,
                      held |-> Len(snapshots)]

DeregisterStakePool(i, pool_id) ==
    LET call == deregister_stake_pool(snapshots[i], pool_id)
    IN  /\ Applied(i, call)
        /\ lastOp' = [op |-> "deregister", on |-> i, before |-> snapshots[i],
                      owner |-> NoInfo, pool_id |-> pool_id, ret |-> call.ret,
                      held |-> Len(snapshots)]

InitDelegation ==
    /\ snapshots = <<DelegationState_new>>
    /\ origin = <<0>>
    /\ lastOp = [op |-> "new", on |-> 1, before |-> DelegationState_new,
                 owner |-> NoInfo, pool_id |-> 0, ret |-> Ok(DelegationState_new),
                 held |-> 0]

NextDelegation ==
    \/ \E i \in DOMAIN snapshots, owner \in StakePoolInfos :
            RegisterStakePool(i, owner) /\ UNCHANGED otherThanDelegation
    \/ \E i \in DOMAIN snapshots, pool_id \in StakePoolIds :
            DeregisterStakePool(i, pool_id) /\ UNCHANGED otherThanDelegation

-----------------------------------------------------------------------------
(* chain_core::packer::Codec, crate::key: the wire primitives.             *)

Fill(n, b) == [i \in 1..n |-> b]

\* Codec::put_u16, Codec::put_u32: big-endian.
Codec_put_u16(v) == <<(v \div 256) % 256, v % 256>>
Codec_put_u32(v) ==
    <<(v \div 16777216) % 256, (v \div 65536) % 256, (v \div 256) % 256, v % 256>>

\* A reader over buffer b with pos bytes consumed: are n more bytes there?
Codec_has(b, pos, n) == pos + n <= Len(b)
Codec_get_u16(b, pos) == b[pos + 1] * 256 + b[pos + 2]
Codec_get_u32(b, pos) ==
    b[pos + 1] * 16777216 + b[pos + 2] * 65536 + b[pos + 3] * 256 + b[pos + 4]
Codec_read_exact(b, pos, n) == SubSeq(b, pos + 1, pos + n)

HASH_SIZE == 32
PUBLIC_KEY_SIZE == 32
SIGNATURE_SIZE == 64
VRF_PUBLIC_SIZE == 32
VRF_PROOF_SIZE == 96

\* Hash::hash_bytes: Blake2b-256, taken as collision-free.
Hash_hash_bytes(bytes) == [blake2b256 |-> bytes]

Keys == 1..NumKeys

\* SecretKey::to_public: the 32 bytes of key k's public key.
PublicKeyOf(k) == Fill(PUBLIC_KEY_SIZE, k)

\* The 64 bytes of the n-th signature issued; 0: bytes no key ever issued
\* over a Common (the test's signature over [0, 1, 2, 3]).
SignatureBytes(n) == Fill(SIGNATURE_SIZE, n)

\* serialize_public_key, serialize_signature: the raw bytes.
serialize_public_key(public_key) == public_key
serialize_signature(signature) == signature

-----------------------------------------------------------------------------
(* block/header.rs                                                         *)

BLOCK_VERSION_CONSENSUS_NONE == 0
BLOCK_VERSION_CONSENSUS_BFT == 1
BLOCK_VERSION_CONSENSUS_GENESIS_PRAOS == 2

\* The values the fields of a Common take in this model.
BlockVersions == {BLOCK_VERSION_CONSENSUS_NONE, BLOCK_VERSION_CONSENSUS_BFT,
                  BLOCK_VERSION_CONSENSUS_GENESIS_PRAOS, 258}
ContentSizes == {0, 16909060}
Epochs == {0, 1}
SlotIds == {0, 2147483647}
Hashes == {Fill(HASH_SIZE, 0), [i \in 1..HASH_SIZE |-> i]}

Commons ==
    [block_version : BlockVersions,
     block_date : [epoch : Epochs, slot_id : SlotIds],
     block_content_size : ContentSizes,
     block_content_hash : Hashes,
     block_parent_hash : Hashes]

Proof_None == [kind |-> "None"]
Proof_Bft(leader_id, signature) ==
    [kind |-> "Bft", leader_id |-> leader_id, signature |-> signature]
Proof_GenesisPraos(vrf_public_key, vrf_proof, kes_public_key, kes_proof) ==
    [kind |-> "GenesisPraos", vrf_public_key |-> vrf_public_key,
     vrf_proof |-> vrf_proof, kes_public_key |-> kes_public_key,
     kes_proof |-> kes_proof]

VrfPublicKeys == {Fill(VRF_PUBLIC_SIZE, 5), Fill(VRF_PUBLIC_SIZE, 6)}
VrfProofs == {Fill(VRF_PROOF_SIZE, 7), Fill(VRF_PROOF_SIZE, 8)}

Header(common, proof) == [common |-> common, proof |-> proof]
NoHeader == [common |-> "none", proof |-> Proof_None]

\* The proof variant block_version names.
ProofMatchesVersion(h) ==
    \/ h.common.block_version = BLOCK_VERSION_CONSENSUS_NONE /\ h.proof.kind = "None"
    \/ h.common.block_version = BLOCK_VERSION_CONSENSUS_BFT /\ h.proof.kind = "Bft"
    \/ h.common.block_version = BLOCK_VERSION_CONSENSUS_GENESIS_PRAOS
            /\ h.proof.kind = "GenesisPraos"

\* A Common written with the slot before the epoch.
Common_serialize_slot_first(self) ==
    Codec_put_u16(self.block_version)
        \o Codec_put_u32(self.block_content_size)
        \o Codec_put_u32(self.block_date.slot_id)
        \o Codec_put_u32(self.block_date.epoch)
        \o self.block_content_hash
        \o self.block_parent_hash

\* A Common written without its slot.
Common_serialize_no_slot(self) ==
    Codec_put_u16(self.block_version)
        \o Codec_put_u32(self.block_content_size)
        \o Codec_put_u32(self.block_date.epoch)
        \o self.block_content_hash
        \o self.block_parent_hash

Common_serialize(self) ==
    Codec_put_u16(self.block_version)
        \o Codec_put_u32(self.block_content_size)
        \o Codec_put_u32(self.block_date.epoch)
        \o Codec_put_u32(self.block_date.slot_id)
        \o self.block_content_hash
        \o self.block_parent_hash

Proof_serialize(proof) ==
    CASE proof.kind = "None" -> <<>>
      [] proof.kind = "Bft" ->
            serialize_public_key(proof.leader_id)
                \o serialize_signature(proof.signature)
      [] proof.kind = "GenesisPraos" ->
            proof.vrf_public_key
                \o proof.vrf_proof
                \o serialize_public_key(proof.kes_public_key)
                \o serialize_signature(proof.kes_proof)

\* The 2-byte hole, the Common, the proof; the hole then filled with
\* buffered_len() as u16 - 2.
Header_serialize(self) ==
    LET body == Common_serialize(self.common) \o Proof_serialize(self.proof)
        buffered_len == 2 + Len(body)
    IN  Codec_put_u16((buffered_len % 65536) - 2) \o body

\* What Header::deserialize ends with: Ok(header) after `consumed` bytes, an
\* io::Error, or the panic of unimplemented!().
Decoded(h, consumed) == [kind |-> "Ok", header |-> h, consumed |-> consumed]
UnexpectedEof == [kind |-> "Err", header |-> NoHeader, consumed |-> 0]
Unimplemented == [kind |-> "Panic", header |-> NoHeader, consumed |-> 0]
NotDecoded == [kind |-> "NotRun", header |-> NoHeader, consumed |-> 0]

\* The match on block_version, the reader at pos: Ok(proof), an io::Error or
\* a panic.
ProofRead(kind, proof, pos) == [kind |-> kind, proof |-> proof, pos |-> pos]

\* A dispatch that takes a Genesis-Praos header as one without proof.
deserialize_proof_praos_as_none(b, pos, block_version) ==
    CASE block_version \in {BLOCK_VERSION_CONSENSUS_NONE,
                            BLOCK_VERSION_CONSENSUS_GENESIS_PRAOS} ->
            ProofRead("Ok", Proof_None, pos)
      [] block_version = BLOCK_VERSION_CONSENSUS_BFT ->
            IF ~Codec_has(b, pos, PUBLIC_KEY_SIZE)
            THEN ProofRead("Err", Proof_None, pos)
            ELSE IF ~Codec_has(b, pos + PUBLIC_KEY_SIZE, SIGNATURE_SIZE)
            THEN ProofRead("Err", Proof_None, pos)
            ELSE ProofRead("Ok",
                     Proof_Bft(Codec_read_exact(b, pos, PUBLIC_KEY_SIZE),
                               Codec_read_exact(b, pos + PUBLIC_KEY_SIZE, SIGNATURE_SIZE)),
                     pos + PUBLIC_KEY_SIZE + SIGNATURE_SIZE)
      [] OTHER -> ProofRead("Panic", Proof_None, pos)

deserialize_proof(b, pos, block_version) ==
    CASE block_version = BLOCK_VERSION_CONSENSUS_NONE ->
            ProofRead("Ok", Proof_None, pos)
      [] block_version = BLOCK_VERSION_CONSENSUS_BFT ->
            IF ~Codec_has(b, pos, PUBLIC_KEY_SIZE)
            THEN ProofRead("Err", Proof_None, pos)
            ELSE IF ~Codec_has(b, pos + PUBLIC_KEY_SIZE, SIGNATURE_SIZE)
            THEN ProofRead("Err", Proof_None, pos)
            ELSE ProofRead("Ok",
                     Proof_Bft(Codec_read_exact(b, pos, PUBLIC_KEY_SIZE),
                               Codec_read_exact(b, pos + PUBLIC_KEY_SIZE, SIGNATURE_SIZE)),
                     pos + PUBLIC_KEY_SIZE + SIGNATURE_SIZE)
      [] block_version = BLOCK_VERSION_CONSENSUS_GENESIS_PRAOS ->
            ProofRead("Panic", Proof_None, pos)
      [] OTHER -> ProofRead("Panic", Proof_None, pos)

Header_deserialize(b) ==
    LET at_version == 2
        at_content_size == at_version + 2
        at_epoch == at_content_size + 4
        at_slot_id == at_epoch + 4
        at_content_hash == at_slot_id + 4
        at_parent_hash == at_content_hash + HASH_SIZE
        at_proof == at_parent_hash + HASH_SIZE
    IN  IF ~Codec_has(b, 0, 2) THEN UnexpectedEof
        ELSE IF ~Codec_has(b, at_version, 2) THEN UnexpectedEof
        ELSE IF ~Codec_has(b, at_content_size, 4) THEN UnexpectedEof
        ELSE IF ~Codec_has(b, at_epoch, 4) THEN UnexpectedEof
        ELSE IF ~Codec_has(b, at_slot_id, 4) THEN UnexpectedEof
        ELSE IF ~Codec_has(b, at_content_hash, HASH_SIZE) THEN UnexpectedEof
        ELSE IF ~Codec_has(b, at_parent_hash, HASH_SIZE) THEN UnexpectedEof
        ELSE
        LET block_version == Codec_get_u16(b, at_version)
            common ==
                [block_version |-> block_version,
                 block_date |-> [epoch |-> Codec_get_u32(b, at_epoch),
                                 slot_id |-> Codec_get_u32(b, at_slot_id)],
                 block_content_size |-> Codec_get_u32(b, at_content_size),
                 block_content_hash |-> Codec_read_exact(b, at_content_hash, HASH_SIZE),
                 block_parent_hash |-> Codec_read_exact(b, at_parent_hash, HASH_SIZE)]
            proof == deserialize_proof(b, at_proof, block_version)
        IN  CASE proof.kind = "Ok" -> Decoded(Header(common, proof.proof), proof.pos)
              [] proof.kind = "Err" -> UnexpectedEof
              [] proof.kind = "Panic" -> Unimplemented

\* A hash over the whole frame, the two size bytes included.
Header_hash_with_size(self) == Hash_hash_bytes(Header_serialize(self))

Header_hash(self) ==
    LET bytes == Header_serialize(self)
    IN  Hash_hash_bytes(SubSeq(bytes, 3, Len(bytes)))

\* crate::key::verify_signature over an ideal signature scheme: a signature
\* verifies under a key over the serialized data exactly when that key issued
\* these signature bytes over these message bytes.
verify_signature(signature, public_key, data) ==
    IF \E n \in DOMAIN signed :
          /\ SignatureBytes(n) = signature
          /\ signed[n].public_key = public_key
          /\ signed[n].msg = Common_serialize(data)
    THEN "Success"
    ELSE "Failed"

\* A verify_proof that does what its TODO asks for: the VRF key and proof
\* have to be the ones the leader made as well.
Header_verify_proof_vrf_too(self) ==
    CASE self.proof.kind = "None" -> "Success"
      [] self.proof.kind = "Bft" ->
            verify_signature(self.proof.signature, self.proof.leader_id, self.common)
      [] self.proof.kind = "GenesisPraos" ->
            IF /\ self.proof.vrf_public_key = Fill(VRF_PUBLIC_SIZE, 5)
               /\ self.proof.vrf_proof = Fill(VRF_PROOF_SIZE, 7)
            THEN verify_signature(self.proof.kes_proof, self.proof.kes_public_key,
                                  self.common)
            ELSE "Failed"

Header_verify_proof(self) ==
    CASE self.proof.kind = "None" -> "Success"
      [] self.proof.kind = "Bft" ->
            verify_signature(self.proof.signature, self.proof.leader_id, self.common)
      [] self.proof.kind = "GenesisPraos" ->
            verify_signature(self.proof.kes_proof, self.proof.kes_public_key, self.common)

-----------------------------------------------------------------------------
(* The life of one header: built in memory, then either written, sent and  *)
(* read back, or verified.                                                 *)

NotProduced == [key |-> 0, scheme |-> "none", signature |-> <<>>]

InitHeader ==
    /\ pc = "start"
    /\ header = NoHeader
    /\ mutations = 0
    /\ produced = NotProduced
    /\ signed = <<>>
    /\ buf = <<>>
    /\ tampered = "none"
    /\ result = NotDecoded
    /\ verdict = "NotRun"

\* The proofs a Header literal is built with when nothing was signed.
UnsignedProofs ==
    {Proof_None}
        \cup {Proof_Bft(PublicKeyOf(k), SignatureBytes(n)) : k \in Keys, n \in 0..1}
        \cup {Proof_GenesisPraos(Fill(VRF_PUBLIC_SIZE, 5), Fill(VRF_PROOF_SIZE, 7),
                                 PublicKeyOf(1), SignatureBytes(0))}

\* Header { common, proof }: any Common with any Proof.
Construct(common, proof) ==
    /\ pc = "start"
    /\ pc' = "built"
    /\ header' = Header(common, proof)
    /\ UNCHANGED <<mutations, produced, signed, buf, tampered, result, verdict>>

\* The signature key k issues over the bytes of a Common.
Issue(k, common) ==
    Append(signed, [public_key |-> PublicKeyOf(k), msg |-> Common_serialize(common)])

\* A BFT leader signs the Common and builds the header around it.
ProduceBft(k, common) ==
    /\ pc = "start"
    /\ pc' = "built"
    /\ signed' = Issue(k, common)
    /\ header' = Header(common, Proof_Bft(PublicKeyOf(k), SignatureBytes(Len(signed'))))
    /\ produced' = [key |-> k, scheme |-> "Bft", common |-> common,
                    signature |-> SignatureBytes(Len(signed'))]
    /\ UNCHANGED <<mutations, buf, tampered, result, verdict>>

\* A Genesis-Praos leader signs the Common with its KES key and adds its VRF
\* key and proof.
ProducePraos(k, common) ==
    /\ pc = "start"
    /\ pc' = "built"
    /\ signed' = Issue(k, common)
    /\ header' = Header(common,
                        Proof_GenesisPraos(Fill(VRF_PUBLIC_SIZE, 5), Fill(VRF_PROOF_SIZE, 7),
                                           PublicKeyOf(k), SignatureBytes(Len(signed'))))
    /\ produced' = [key |-> k, scheme |-> "GenesisPraos", common |-> common,
                    signature |-> SignatureBytes(Len(signed'))]
    /\ UNCHANGED <<mutations, buf, tampered, result, verdict>>

\* Every header that differs from h in one field.
OneFieldChanged(h) ==
    LET c == h.common
        p == h.proof
        commons ==
            {[c EXCEPT !.block_version = v] : v \in BlockVersions}
                \cup {[c EXCEPT !.block_content_size = v] : v \in ContentSizes}
                \cup {[c EXCEPT !.block_date.epoch = v] : v \in Epochs}
                \cup {[c EXCEPT !.block_date.slot_id = v] : v \in SlotIds}
                \cup {[c EXCEPT !.block_content_hash = v] : v \in Hashes}
                \cup {[c EXCEPT !.block_parent_hash = v] : v \in Hashes}
        proofs ==
            CASE p.kind = "None" -> {}
              [] p.kind = "Bft" ->
                    {[p EXCEPT !.leader_id = PublicKeyOf(k)] : k \in Keys}
              [] p.kind = "GenesisPraos" ->
                    {[p EXCEPT !.kes_public_key = PublicKeyOf(k)] : k \in Keys}
                        \cup {[p EXCEPT !.vrf_public_key = v] : v \in VrfPublicKeys}
                        \cup {[p EXCEPT !.vrf_proof = v] : v \in VrfProofs}
    IN  ({Header(c2, p) : c2 \in commons} \cup {Header(c, p2) : p2 \in proofs}) \ {h}

\* A field of the signed header is overwritten.
Mutate ==
    /\ pc = "built"
    /\ produced.key # 0
    /\ mutations < MaxMutations
    /\ \E h2 \in OneFieldChanged(header) : header' = h2
    /\ mutations' = mutations + 1
    /\ UNCHANGED <<pc, produced, signed, buf, tampered, result, verdict>>

VerifyProof ==
    /\ pc = "built"
    /\ pc' = "verified"
    /\ verdict' = Header_verify_proof(header)
    /\ UNCHANGED <<header, mutations, produced, signed, buf, tampered, result>>

Serialize ==
    /\ pc = "built"
    /\ pc' = "wire"
    /\ buf' = Header_serialize(header)
    /\ UNCHANGED <<header, mutations, produced, signed, tampered, result, verdict>>

\* What reaches the reader is not always what the writer wrote: the stream
\* ends early, goes on with the block's content, or comes from a peer that
\* wrote another version or another size.
TruncatedLengths == {1, 3, 79, 80, 120, 175}
TrailingBytes == {<<0>>, <<1, 2, 3>>}
SizePrefixes == {0, 65535}

Truncate(n) ==
    /\ pc = "wire" /\ tampered = "none"
    /\ n < Len(buf)
    /\ buf' = SubSeq(buf, 1, n)
    /\ tampered' = "truncated"
    /\ UNCHANGED <<pc, header, mutations, produced, signed, result, verdict>>

AppendTrailing(more) ==
    /\ pc = "wire" /\ tampered = "none"
    /\ buf' = buf \o more
    /\ tampered' = "trailing"
    /\ UNCHANGED <<pc, header, mutations, produced, signed, result, verdict>>

SetVersion(v) ==
    /\ pc = "wire" /\ tampered = "none"
    /\ Codec_get_u16(buf, 2) # v
    /\ buf' = SubSeq(buf, 1, 2) \o Codec_put_u16(v) \o SubSeq(buf, 5, Len(buf))
    /\ tampered' = "version"
    /\ UNCHANGED <<pc, header, mutations, produced, signed, result, verdict>>

SetSize(n) ==
    /\ pc = "wire" /\ tampered = "none"
    /\ buf' = Codec_put_u16(n) \o SubSeq(buf, 3, Len(buf))
    /\ tampered' = "size"
    /\ UNCHANGED <<pc, header, mutations, produced, signed, result, verdict>>

Deserialize ==
    /\ pc = "wire"
    /\ pc' = "decoded"
    /\ result' = Header_deserialize(buf)
    /\ UNCHANGED <<header, mutations, produced, signed, buf, tampered, verdict>>

NextCodec ==
    \/ \E common \in Commons, proof \in UnsignedProofs :
            Construct(common, proof) /\ UNCHANGED otherThanHeader
    \/ Serialize /\ UNCHANGED otherThanHeader
    \/ \E n \in TruncatedLengths : Truncate(n) /\ UNCHANGED otherThanHeader
    \/ \E more \in TrailingBytes : AppendTrailing(more) /\ UNCHANGED otherThanHeader
    \/ \E v \in BlockVersions : SetVersion(v) /\ UNCHANGED otherThanHeader
    \/ \E n \in SizePrefixes : SetSize(n) /\ UNCHANGED otherThanHeader
    \/ Deserialize /\ UNCHANGED otherThanHeader

\* The same with every header built as its version asks: no proof for 0, a
\* Bft proof for 1, a Genesis-Praos proof for 2.
NextFrames ==
    \/ \E common \in Commons, proof \in UnsignedProofs :
            /\ ProofMatchesVersion(Header(common, proof))
            /\ Construct(common, proof) /\ UNCHANGED otherThanHeader
    \/ Serialize /\ UNCHANGED otherThanHeader
    \/ \E n \in TruncatedLengths : Truncate(n) /\ UNCHANGED otherThanHeader
    \/ \E more \in TrailingBytes : AppendTrailing(more) /\ UNCHANGED otherThanHeader
    \/ \E v \in BlockVersions : SetVersion(v) /\ UNCHANGED otherThanHeader
    \/ \E n \in SizePrefixes : SetSize(n) /\ UNCHANGED otherThanHeader
    \/ Deserialize /\ UNCHANGED otherThanHeader

NextVerify ==
    \/ \E common \in Commons, proof \in UnsignedProofs :
            Construct(common, proof) /\ UNCHANGED otherThanHeader
    \/ \E k \in Keys, common \in Commons :
            ProduceBft(k, common) /\ UNCHANGED otherThanHeader
    \/ \E k \in Keys, common \in Commons :
            ProducePraos(k, common) /\ UNCHANGED otherThanHeader
    \/ Mutate /\ UNCHANGED otherThanHeader
    \/ VerifyProof /\ UNCHANGED otherThanHeader

-----------------------------------------------------------------------------
(* certificate/vote_tally.rs                                               *)

VOTE_PLAN_ID_SIZE == 32

VotePlanIds == {Fill(VOTE_PLAN_ID_SIZE, 1), [i \in 1..VOTE_PLAN_ID_SIZE |-> 2 * i]}
PayloadTypes == {"Public", "Private"}

\* vote::PayloadType as u8, and TryFrom<u8> for PayloadType.
PayloadType_as_u8(t) == IF t = "Public" THEN 0 ELSE 1
PayloadType_try_from(b) ==
    CASE b = 0 -> Ok("Public")
      [] b = 1 -> Ok("Private")
      [] OTHER -> Err("TryFromIntError")

VoteTallyPayload_payload_type(self) ==
    CASE self = "Public" -> "Public"
      [] self = "Private" -> "Private"

VoteTally(id, payload) == [id |-> id, payload |-> payload]
NoTally == [id |-> <<>>, payload |-> "none"]

VoteTally_new_public(id) == VoteTally(id, "Public")

VoteTally_tally_type(self) == VoteTallyPayload_payload_type(self.payload)

\* A body written tag first.
VoteTally_serialize_in_tag_first(self, bb) ==
    bb \o <<PayloadType_as_u8(VoteTallyPayload_payload_type(self.payload))>>
       \o self.id

VoteTally_serialize_in(self, bb) ==
    bb \o self.id
       \o <<PayloadType_as_u8(VoteTallyPayload_payload_type(self.payload))>>

VoteTally_serialize(self) == VoteTally_serialize_in(self, <<>>)

\* What Readable::read ends with, the cursor at pos.
ReadOk(v, pos) == [kind |-> "Ok", value |-> v, pos |-> pos]
NotEnoughBytes(pos) == [kind |-> "NotEnoughBytes", value |-> NoTally, pos |-> pos]
StructureInvalid(pos) == [kind |-> "StructureInvalid", value |-> NoTally, pos |-> pos]
NotRead == [kind |-> "NotRun", value |-> NoTally, pos |-> 0]

VoteTally_read(b, pos) ==
    IF ~Codec_has(b, pos, VOTE_PLAN_ID_SIZE) THEN NotEnoughBytes(pos)
    ELSE LET id == Codec_read_exact(b, pos, VOTE_PLAN_ID_SIZE)
             at_type == pos + VOTE_PLAN_ID_SIZE
         IN  IF ~Codec_has(b, at_type, 1) THEN NotEnoughBytes(at_type)
             ELSE LET payload_type == PayloadType_try_from(b[at_type + 1])
                  IN  IF ~payload_type.ok THEN StructureInvalid(at_type + 1)
                      ELSE ReadOk(VoteTally(id,
                                      CASE payload_type.value = "Public" -> "Public"
                                        [] payload_type.value = "Private" -> "Private"),
                                  at_type + 1)

TallyProof_Public(id, signature) ==
    [kind |-> "Public", id |-> id, signature |-> signature, shares |-> <<>>]
TallyProof_Private(id, signature, shares) ==
    [kind |-> "Private", id |-> id, signature |-> signature, shares |-> shares]
NoTallyProof == [kind |-> "none", id |-> <<>>, signature |-> <<>>, shares |-> <<>>]

\* CommitteeId::public_key: the committee id is the member's public key.
CommitteeId_public_key(id) == id

\* SingleAccountBindingSignature::verify_slice over the ideal signature
\* scheme: Success exactly when this key issued these bytes over this data.
verify_slice(signature, pk, verify_data) ==
    IF \E n \in DOMAIN signed :
          /\ SignatureBytes(n) = signature
          /\ signed[n].public_key = pk
          /\ signed[n].msg = verify_data
    THEN "Success"
    ELSE "Failed"

\* A verify that does not look at the tally type.
TallyProof_verify_any_type(self, tally_type, verify_data) ==
    verify_slice(self.signature, CommitteeId_public_key(self.id), verify_data)

TallyProof_verify(self, tally_type, verify_data) ==
    CASE self.kind = "Public" ->
            IF tally_type # "Public"
            THEN "Failed"
            ELSE LET pk == CommitteeId_public_key(self.id)
                 IN  verify_slice(self.signature, pk, verify_data)
      [] self.kind = "Private" ->
            IF tally_type # "Private"
            THEN "Failed"
            ELSE LET pk == CommitteeId_public_key(self.id)
                 IN  verify_slice(self.signature, pk, verify_data)

-----------------------------------------------------------------------------
(* The life of a vote tally: built, written, sent, read back; and of a     *)
(* tally proof: signed by a committee member, then verified.               *)

\* The binding data of the enclosing transaction, and decryption shares.
BindingData == {Fill(HASH_SIZE, 3), Fill(HASH_SIZE, 4)}
ShareLists == {<<>>, <<<<9, 9>>>>}
PayloadTypeBytes == {0, 1, 2, 255}
NoArgs == [tally_type |-> "none", verify_data |-> <<>>]

InitTally ==
    /\ tallyPc = "start"
    /\ tally = NoTally
    /\ tallyBuf = <<>>
    /\ tallyTampered = "none"
    /\ tallyRead = NotRead
    /\ tallyProof = NoTallyProof
    /\ tallyArgs = NoArgs
    /\ tallyVerdict = "NotRun"

NewPublic(id) ==
    /\ tallyPc = "start"
    /\ tallyPc' = "built"
    /\ tally' = VoteTally_new_public(id)
    /\ UNCHANGED <<tallyBuf, tallyTampered, tallyRead, tallyProof, tallyArgs,
                   tallyVerdict, signed>>

SerializeTally ==
    /\ tallyPc = "built"
    /\ tallyPc' = "wire"
    /\ tallyBuf' = VoteTally_serialize(tally)
    /\ tallyTampered' = "none"
    /\ UNCHANGED <<tally, tallyRead, tallyProof, tallyArgs, tallyVerdict, signed>>

\* A peer sends the body with another payload-type byte.
SetPayloadTypeByte(b) ==
    /\ tallyPc = "wire" /\ tallyTampered = "none"
    /\ tallyBuf[Len(tallyBuf)] # b
    /\ tallyBuf' = [tallyBuf EXCEPT ![Len(tallyBuf)] = b]
    /\ tallyTampered' = "type"
    /\ UNCHANGED <<tallyPc, tally, tallyRead, tallyProof, tallyArgs, tallyVerdict, signed>>

\* The body arrives without its last byte.
TruncateTally ==
    /\ tallyPc = "wire" /\ tallyTampered = "none"
    /\ tallyBuf' = SubSeq(tallyBuf, 1, Len(tallyBuf) - 1)
    /\ tallyTampered' = "truncated"
    /\ UNCHANGED <<tallyPc, tally, tallyRead, tallyProof, tallyArgs, tallyVerdict, signed>>

ReadTally ==
    /\ tallyPc = "wire"
    /\ tallyPc' = "read"
    /\ tallyRead' = VoteTally_read(tallyBuf, 0)
    /\ UNCHANGED <<tally, tallyBuf, tallyTampered, tallyProof, tallyArgs,
                   tallyVerdict, signed>>

\* The tally that was read is the one the node goes on with.
KeepTally ==
    /\ tallyPc = "read"
    /\ tallyRead.kind = "Ok"
    /\ tallyRead.value # tally
    /\ tallyPc' = "built"
    /\ tally' = tallyRead.value
    /\ tallyRead' = NotRead
    /\ tallyBuf' = <<>>
    /\ tallyTampered' = "none"
    /\ UNCHANGED <<tallyProof, tallyArgs, tallyVerdict, signed>>

\* Committee member k signs the binding data and builds the proof.
SignTally(k, kind, shares, verify_data) ==
    /\ tallyPc = "start"
    /\ tallyPc' = "proved"
    /\ signed' = Append(signed, [public_key |-> PublicKeyOf(k), msg |-> verify_data])
    /\ tallyProof' = IF kind = "Public"
                     THEN TallyProof_Public(PublicKeyOf(k), SignatureBytes(Len(signed')))
                     ELSE TallyProof_Private(PublicKeyOf(k), SignatureBytes(Len(signed')),
                                             shares)
    /\ UNCHANGED <<tally, tallyBuf, tallyTampered, tallyRead, tallyArgs, tallyVerdict>>

\* A proof that carries bytes no committee member issued.
ForgeTally(k, kind, shares) ==
    /\ tallyPc = "start"
    /\ tallyPc' = "proved"
    /\ tallyProof' = IF kind = "Public"
                     THEN TallyProof_Public(PublicKeyOf(k), SignatureBytes(0))
                     ELSE TallyProof_Private(PublicKeyOf(k), SignatureBytes(0), shares)
    /\ UNCHANGED <<tally, tallyBuf, tallyTampered, tallyRead, tallyArgs, tallyVerdict,
                   signed>>

VerifyTally(tally_type, verify_data) ==
    /\ tallyPc = "proved"
    /\ tallyPc' = "verified"
    /\ tallyArgs' = [tally_type |-> tally_type, verify_data |-> verify_data]
    /\ tallyVerdict' = TallyProof_verify(tallyProof, tally_type, verify_data)
    /\ UNCHANGED <<tally, tallyBuf, tallyTampered, tallyRead, tallyProof, signed>>

NextTally ==
    \/ \E id \in VotePlanIds : NewPublic(id) /\ UNCHANGED otherThanTally
    \/ SerializeTally /\ UNCHANGED otherThanTally
    \/ \E b \in PayloadTypeBytes : SetPayloadTypeByte(b) /\ UNCHANGED otherThanTally
    \/ TruncateTally /\ UNCHANGED otherThanTally
    \/ ReadTally /\ UNCHANGED otherThanTally
    \/ KeepTally /\ UNCHANGED otherThanTally
    \/ \E k \in Keys, kind \in PayloadTypes, shares \in ShareLists, data \in BindingData :
            SignTally(k, kind, shares, data) /\ UNCHANGED otherThanTally
    \/ \E k \in Keys, kind \in PayloadTypes, shares \in ShareLists :
            ForgeTally(k, kind, shares) /\ UNCHANGED otherThanTally
    \/ \E tally_type \in PayloadTypes, data \in BindingData :
            VerifyTally(tally_type, data) /\ UNCHANGED otherThanTally

-----------------------------------------------------------------------------
(* certificate/vote_tally.rs: the tally proof on the wire.                 *)

COMMITTEE_ID_SIZE == 32

\* typed_bytes::ByteBuilder::u8 and ::u64 (big-endian); counts in the model
\* stay below 2^32, so the four high bytes are zero.
ByteBuilder_u8(v) == <<v % 256>>
ByteBuilder_u64(v) == Fill(4, 0) \o Codec_put_u32(v)

\* chain_vote::TallyDecryptShare: ShareSize bytes, written and read as they are.
TallyDecryptShare_serialize(share) == share

\* shares.iter().flat_map(|share| share.serialize()...).collect()
RECURSIVE FlatMapShares(_)
FlatMapShares(shares) ==
    IF shares = <<>> THEN <<>>
    ELSE TallyDecryptShare_serialize(Head(shares)) \o FlatMapShares(Tail(shares))

TallyProof_serialize_in(self, bb) ==
    CASE self.kind = "Public" ->
            bb \o ByteBuilder_u8(0) \o self.id \o self.signature
      [] self.kind = "Private" ->
            bb \o ByteBuilder_u8(1)
               \o self.id
               \o self.signature
               \o ByteBuilder_u64(Len(self.shares))
               \o FlatMapShares(self.shares)

\* Payload::payload_auth_data: the proof's bytes in a fresh builder.
payload_auth_data(auth) == TallyProof_serialize_in(auth, <<>>)

\* The loop of TallyProof::read: n times TallyDecryptShare::read, stopping
\* at the first that fails.
RECURSIVE ReadShares(_, _, _)
ReadShares(b, pos, n) ==
    IF n = 0 THEN [ok |-> TRUE, shares |-> <<>>, pos |-> pos]
    ELSE IF ~Codec_has(b, pos, ShareSize)
         THEN [ok |-> FALSE, shares |-> <<>>, pos |-> pos]
         ELSE LET share == Codec_read_exact(b, pos, ShareSize)
                  rest == ReadShares(b, pos + ShareSize, n - 1)
              IN  IF rest.ok
                  THEN [ok |-> TRUE, shares |-> <<share>> \o rest.shares, pos |-> rest.pos]
                  ELSE rest

\* A read that takes the share count as the eight bytes serialize_in wrote.
TallyProof_read_u64_count(b, pos) ==
    IF ~Codec_has(b, pos, 1) THEN NotEnoughBytes(pos)
    ELSE IF b[pos + 1] \notin {0, 1} THEN StructureInvalid(pos)
    ELSE IF ~Codec_has(b, pos + 1, COMMITTEE_ID_SIZE + SIGNATURE_SIZE)
         THEN NotEnoughBytes(pos + 1)
    ELSE LET id == Codec_read_exact(b, pos + 1, COMMITTEE_ID_SIZE)
             at_sig == pos + 1 + COMMITTEE_ID_SIZE
             signature == Codec_read_exact(b, at_sig, SIGNATURE_SIZE)
             at_len == at_sig + SIGNATURE_SIZE
         IN  IF b[pos + 1] = 0 THEN ReadOk(TallyProof_Public(id, signature), at_len)
             ELSE IF ~Codec_has(b, at_len, 8) THEN NotEnoughBytes(at_len)
             ELSE LET read == ReadShares(b, at_len + 8, Codec_get_u32(b, at_len + 4))
                  IN  IF read.ok
                      THEN ReadOk(TallyProof_Private(id, signature, read.shares), read.pos)
                      ELSE NotEnoughBytes(read.pos)

TallyProof_read(b, pos) ==
    IF ~Codec_has(b, pos, 1) THEN NotEnoughBytes(pos)
    ELSE CASE b[pos + 1] = 0 ->
                LET at_id == pos + 1
                    at_sig == at_id + COMMITTEE_ID_SIZE
                IN  IF ~Codec_has(b, at_id, COMMITTEE_ID_SIZE) THEN NotEnoughBytes(at_id)
                    ELSE IF ~Codec_has(b, at_sig, SIGNATURE_SIZE) THEN NotEnoughBytes(at_sig)
                    ELSE ReadOk(TallyProof_Public(
                                    Codec_read_exact(b, at_id, COMMITTEE_ID_SIZE),
                                    Codec_read_exact(b, at_sig, SIGNATURE_SIZE)),
                                at_sig + SIGNATURE_SIZE)
           [] b[pos + 1] = 1 ->
                LET at_id == pos + 1
                    at_sig == at_id + COMMITTEE_ID_SIZE
                    at_len == at_sig + SIGNATURE_SIZE
                IN  IF ~Codec_has(b, at_id, COMMITTEE_ID_SIZE) THEN NotEnoughBytes(at_id)
                    ELSE IF ~Codec_has(b, at_sig, SIGNATURE_SIZE) THEN NotEnoughBytes(at_sig)
                    ELSE IF ~Codec_has(b, at_len, 1) THEN NotEnoughBytes(at_len)
                    ELSE LET id == Codec_read_exact(b, at_id, COMMITTEE_ID_SIZE)
                             signature == Codec_read_exact(b, at_sig, SIGNATURE_SIZE)
                             shares_len == b[at_len + 1]
                             read == ReadShares(b, at_len + 1, shares_len)
                         IN  IF read.ok
                             THEN ReadOk(TallyProof_Private(id, signature, read.shares),
                                         read.pos)
                             ELSE NotEnoughBytes(read.pos)
           [] OTHER -> StructureInvalid(pos)

-----------------------------------------------------------------------------
(* The life of a tally proof on the wire: built, framed, sent, read back.  *)

CommitteeIds == {Fill(COMMITTEE_ID_SIZE, 1), [i \in 1..COMMITTEE_ID_SIZE |-> 3 * i]}
BindingSignatures == {SignatureBytes(1), [i \in 1..SIGNATURE_SIZE |-> 100 + i]}
ShareValues == {Fill(ShareSize, 9), [i \in 1..ShareSize |-> 20 + i]}
WireShareLists == UNION {[1..n -> ShareValues] : n \in 0..MaxShares}

TallyProofs ==
    {TallyProof_Public(id, signature) :
        id \in CommitteeIds, signature \in BindingSignatures}
    \cup {TallyProof_Private(id, signature, shares) :
            id \in CommitteeIds, signature \in BindingSignatures,
            shares \in WireShareLists}

\* The frame TallyProof::read takes apart: as serialize_in writes it, but the
\* share count in one byte.
OneByteCountFrame(proof) ==
    CASE proof.kind = "Public" -> <<0>> \o proof.id \o proof.signature
      [] proof.kind = "Private" ->
            <<1>> \o proof.id \o proof.signature
                  \o <<Len(proof.shares)>> \o FlatMapShares(proof.shares)

ProofTruncatedLengths == {0, 20, 60, 97, 99}
ProofTags == {0, 1, 2}

InitProof ==
    /\ proofPc = "start"
    /\ proofValue = NoTallyProof
    /\ proofBuf = <<>>
    /\ proofWriter = "none"
    /\ proofTampered = "none"
    /\ proofRead = NotRead

BuildProof(proof) ==
    /\ proofPc = "start"
    /\ proofPc' = "built"
    /\ proofValue' = proof
    /\ UNCHANGED <<proofBuf, proofWriter, proofTampered, proofRead>>

SerializeProof ==
    /\ proofPc = "built"
    /\ proofPc' = "wire"
    /\ proofBuf' = payload_auth_data(proofValue)
    /\ proofWriter' = "serialize_in"
    /\ UNCHANGED <<proofValue, proofTampered, proofRead>>

\* A peer frames the proof the way read expects it.
PeerFrame ==
    /\ proofPc = "built"
    /\ proofPc' = "wire"
    /\ proofBuf' = OneByteCountFrame(proofValue)
    /\ proofWriter' = "peer"
    /\ UNCHANGED <<proofValue, proofTampered, proofRead>>

\* Only the first n bytes arrive.
TruncateProof(n) ==
    /\ proofPc = "wire" /\ proofTampered = "none"
    /\ n < Len(proofBuf)
    /\ proofBuf' = SubSeq(proofBuf, 1, n)
    /\ proofTampered' = "truncated"
    /\ UNCHANGED <<proofPc, proofValue, proofWriter, proofRead>>

\* The frame arrives with another tag byte.
SetProofTag(t) ==
    /\ proofPc = "wire" /\ proofTampered = "none"
    /\ proofBuf[1] # t
    /\ proofBuf' = [proofBuf EXCEPT ![1] = t]
    /\ proofTampered' = "tag"
    /\ UNCHANGED <<proofPc, proofValue, proofWriter, proofRead>>

ReadProof ==
    /\ proofPc = "wire"
    /\ proofPc' = "read"
    /\ proofRead' = TallyProof_read(proofBuf, 0)
    /\ UNCHANGED <<proofValue, proofBuf, proofWriter, proofTampered>>

NextProof ==
    \/ \E proof \in TallyProofs : BuildProof(proof) /\ UNCHANGED otherThanProof
    \/ SerializeProof /\ UNCHANGED otherThanProof
    \/ PeerFrame /\ UNCHANGED otherThanProof
    \/ \E n \in ProofTruncatedLengths : TruncateProof(n) /\ UNCHANGED otherThanProof
    \/ \E t \in ProofTags : SetProofTag(t) /\ UNCHANGED otherThanProof
    \/ ReadProof /\ UNCHANGED otherThanProof

-----------------------------------------------------------------------------
(* The specifications: one per part, the other parts at rest.              *)

Init == InitDelegation /\ InitHeader /\ InitTally /\ InitProof

SpecDelegation == Init /\ [][NextDelegation]_vars

SpecCodec == Init /\ [][NextCodec]_vars

SpecFrames == Init /\ [][NextFrames]_vars

SpecVerify == Init /\ [][NextVerify]_vars

SpecTally == Init /\ [][NextTally]_vars

SpecProof == Init /\ [][NextProof]_vars

-----------------------------------------------------------------------------
(* Properties of the registry.                                             *)

\* C1: registering a pool whose id is not in S succeeds, the returned state
\* holds the id, and S itself still does not; registering on a state that
\* already holds the id fails with StakePoolAlreadyExists(id), creates no
\* state and leaves the stored entry as it was.
C1_RegisterFreshThenDuplicate ==
    lastOp.op = "register" =>
        LET S == lastOp.before
            id == lastOp.pool_id
            after == snapshots[lastOp.on]
        IN  IF ~stake_pool_exists(S, id)
            THEN /\ lastOp.ret.ok
                 /\ stake_pool_exists(lastOp.ret.value, id)
                 /\ Hamt_lookup(lastOp.ret.value.stake_pools, id) = {lastOp.owner}
                 /\ snapshots[Len(snapshots)] = lastOp.ret.value
                 /\ ~stake_pool_exists(after, id)
            ELSE /\ ~lastOp.ret.ok
                 /\ lastOp.ret.err = StakePoolAlreadyExists(id)
                 /\ Len(snapshots) = lastOp.held
                 /\ Hamt_lookup(after.stake_pools, id) = Hamt_lookup(S.stake_pools, id)

\* C1 witness: a pool was registered on a state without it, and the same pool
\* info (and another info with the same id) was then registered again on the
\* state that came out.
C1_Witness ==
    /\ lastOp.op = "register"
    /\ ~lastOp.ret.ok
    /\ origin[lastOp.on] # 0
    /\ ~stake_pool_exists(snapshots[origin[lastOp.on]], lastOp.pool_id)
    /\ Hamt_lookup(snapshots[lastOp.on].stake_pools, lastOp.pool_id) = {lastOp.owner}
    /\ \E other \in StakePoolInfos : other # lastOp.owner /\ to_id(other) = lastOp.pool_id

\* C2: deregistering an id that is not in S fails with
\* StakePoolDoesNotExist(id) and creates no state; deregistering one that is
\* in S returns a state without it in which every other id has the membership
\* and the stored info it has in S.
C2_DeregisterMissingOrPresent ==
    lastOp.op = "deregister" =>
        LET S == lastOp.before
            P == lastOp.pool_id
        IN  IF ~stake_pool_exists(S, P)
            THEN /\ ~lastOp.ret.ok
                 /\ lastOp.ret.err = StakePoolDoesNotExist(P)
                 /\ Len(snapshots) = lastOp.held
            ELSE /\ lastOp.ret.ok
                 /\ snapshots[Len(snapshots)] = lastOp.ret.value
                 /\ Len(snapshots) = lastOp.held + 1
                 /\ ~stake_pool_exists(lastOp.ret.value, P)
                 /\ \A Q \in StakePoolIds \ {P} :
                        Hamt_lookup(lastOp.ret.value.stake_pools, Q)
                            = Hamt_lookup(S.stake_pools, Q)

\* C2 witness: a pool was removed from a state that holds another pool too.
C2_Witness ==
    /\ lastOp.op = "deregister"
    /\ lastOp.ret.ok
    /\ \E Q \in StakePoolIds \ {lastOp.pool_id} : stake_pool_exists(lastOp.before, Q)

\* C3: a snapshot, once obtained, answers stake_pool_exists the same way for
\* every id after any later register or deregister call, failing or not, on
\* itself or on any other snapshot.
C3_SnapshotsPersist ==
    [][\A i \in DOMAIN snapshots :
          /\ i \in DOMAIN snapshots'
          /\ \A id \in StakePoolIds :
                stake_pool_exists(snapshots'[i], id) = stake_pool_exists(snapshots[i], id)]_vars

\* C3 witness: two branches derived different states from one snapshot, which
\* differs from both.
C3_Witness ==
    \E i, j \in DOMAIN snapshots :
        /\ i # j
        /\ origin[i] # 0
        /\ origin[i] = origin[j]
        /\ snapshots[i] # snapshots[j]
        /\ snapshots[origin[i]] # snapshots[i]
        /\ snapshots[origin[i]] # snapshots[j]
        /\ \E id \in StakePoolIds : stake_pool_exists(snapshots[origin[i]], id)

-----------------------------------------------------------------------------
(* Properties of the header.                                               *)

\* C4: a header of version 0 without proof, or of version 1 with a Bft proof,
\* that is serialized and deserialized comes back Ok and equal in every field
\* of Common and in the proof.
C4_SerializationBijection ==
    (/\ pc = "decoded"
     /\ tampered = "none"
     /\ header.common.block_version
            \in {BLOCK_VERSION_CONSENSUS_NONE, BLOCK_VERSION_CONSENSUS_BFT}
     /\ ProofMatchesVersion(header))
        => /\ result.kind = "Ok"
           /\ result.header.common = header.common
           /\ result.header.proof = header.proof

\* C4 witness: a BFT header with no field zero went through serialize and
\* deserialize.
C4_Witness ==
    /\ pc = "decoded"
    /\ tampered = "none"
    /\ header.common.block_version = BLOCK_VERSION_CONSENSUS_BFT
    /\ header.proof.kind = "Bft"
    /\ header.common.block_content_size # 0
    /\ header.common.block_date.epoch # 0
    /\ header.common.block_date.slot_id # 0
    /\ header.common.block_content_hash # header.common.block_parent_hash
    /\ result.kind = "Ok"

\* C5 as stated: whenever deserialize decodes buffer b into h, h.hash() is the
\* content hash of b without its first two bytes.
C5_HashOfWholeBuffer ==
    (pc = "decoded" /\ result.kind = "Ok")
        => Header_hash(result.header) = Hash_hash_bytes(SubSeq(buf, 3, Len(buf)))

\* C5 as amended: whenever deserialize decodes buffer b into h, h.hash() is the
\* content hash of the bytes of b that deserialize consumed, without the first
\* two; bytes of b past the decoded frame are not part of the hash.
C5_HashOfConsumedBytes ==
    (pc = "decoded" /\ result.kind = "Ok")
        => Header_hash(result.header)
               = Hash_hash_bytes(SubSeq(buf, 3, result.consumed))

\* C5 witness: a BFT frame followed by more bytes was decoded.
C5_Witness ==
    /\ pc = "decoded"
    /\ result.kind = "Ok"
    /\ result.header.proof.kind = "Bft"
    /\ tampered = "trailing"
    /\ result.consumed < Len(buf)

\* C6: what deserialize returns has the proof variant its block_version names,
\* and a header whose proof variant does not match its block_version does not
\* come back Ok from serialize followed by deserialize.
C6_MismatchRejectedNotCoerced ==
    /\ (pc = "decoded" /\ result.kind = "Ok") => ProofMatchesVersion(result.header)
    /\ (pc = "decoded" /\ tampered = "none" /\ ~ProofMatchesVersion(header))
            => result.kind # "Ok"

\* C7: a BFT header whose signature leader K issued over the bytes of its
\* Common verifies Success exactly when leader_id is still K's public key and
\* every field of Common is as signed, and Failed otherwise; a change of the
\* proof alone leaves the message to verify the one that was signed.
C7_BftVerificationSound ==
    (pc = "verified" /\ produced.scheme = "Bft")
        => /\ verdict = IF /\ header.proof.leader_id = PublicKeyOf(produced.key)
                           /\ header.common = produced.common
                        THEN "Success"
                        ELSE "Failed"
           /\ header.common = produced.common
                => \E n \in DOMAIN signed :
                      /\ SignatureBytes(n) = header.proof.signature
                      /\ signed[n].msg = Common_serialize(header.common)

\* C7 witness: a field of Common was changed after K signed, leader_id is
\* still K's key, and verify_proof returned Failed.
C7_Witness ==
    /\ pc = "verified"
    /\ produced.scheme = "Bft"
    /\ header.proof.leader_id = PublicKeyOf(produced.key)
    /\ header.common # produced.common
    /\ header.common.block_version = produced.common.block_version
    /\ verdict = "Failed"

\* C10: once the Common is read, version 0 gives Ok with Proof::None and
\* nothing more read, version 1 gives Ok with the next bytes as public key and
\* then signature (an error when they are not all there), and any other
\* version panics; deserialize never returns Ok with a version outside {0, 1}.
C10_VersionDispatch ==
    pc = "decoded" =>
        LET common_end == 2 + 2 + 4 + 4 + 4 + HASH_SIZE + HASH_SIZE
            bft_end == common_end + PUBLIC_KEY_SIZE + SIGNATURE_SIZE
        IN  /\ result.kind = "Ok"
                => result.header.common.block_version
                       \in {BLOCK_VERSION_CONSENSUS_NONE, BLOCK_VERSION_CONSENSUS_BFT}
            /\ Len(buf) < common_end => result.kind = "Err"
            /\ Len(buf) >= common_end =>
                 CASE Codec_get_u16(buf, 2) = BLOCK_VERSION_CONSENSUS_NONE ->
                        /\ result.kind = "Ok"
                        /\ result.header.proof = Proof_None
                        /\ result.consumed = common_end
                   [] Codec_get_u16(buf, 2) = BLOCK_VERSION_CONSENSUS_BFT ->
                        IF Len(buf) >= bft_end
                        THEN /\ result.kind = "Ok"
                             /\ result.header.proof
                                    = Proof_Bft(SubSeq(buf, common_end + 1,
                                                       common_end + PUBLIC_KEY_SIZE),
                                                SubSeq(buf, common_end + PUBLIC_KEY_SIZE + 1,
                                                       bft_end))
                             /\ result.consumed = bft_end
                        ELSE result.kind = "Err"
                   [] OTHER -> result.kind = "Panic"

\* C10 witness: a complete Genesis-Praos frame was handed to deserialize,
\* which panicked.
C10_Witness ==
    /\ pc = "decoded"
    /\ tampered = "none"
    /\ header.proof.kind = "GenesisPraos"
    /\ Codec_get_u16(buf, 2) = BLOCK_VERSION_CONSENSUS_GENESIS_PRAOS
    /\ result.kind = "Panic"

-----------------------------------------------------------------------------
(* Properties of the vote tally.                                           *)

\* C8: a Public proof verified for a Private tally, and a Private proof
\* verified for a Public tally, is Failed whatever the binding data and the
\* signature; when variant and tally type agree the outcome is that of
\* verifying the signature under the key of the committee id.
C8_TallyTypeProofCoupling ==
    tallyPc = "verified" =>
        IF tallyProof.kind # tallyArgs.tally_type
        THEN tallyVerdict = "Failed"
        ELSE tallyVerdict = verify_slice(tallyProof.signature,
                                         CommitteeId_public_key(tallyProof.id),
                                         tallyArgs.verify_data)

\* C8 witness: a Public proof whose signature is valid for the binding data
\* was verified for a Private tally.
C8_Witness ==
    /\ tallyPc = "verified"
    /\ tallyProof.kind = "Public"
    /\ tallyArgs.tally_type = "Private"
    /\ verify_slice(tallyProof.signature, CommitteeId_public_key(tallyProof.id),
                    tallyArgs.verify_data) = "Success"
    /\ tallyVerdict = "Failed"

\* C9: serialize writes 33 bytes, the 32 of the id and then 0 for Public or 1
\* for Private; read on them returns the tally that was written; read on a
\* body whose last byte is neither 0 nor 1 returns StructureInvalid.
C9_VoteTallyRoundTrip ==
    /\ (tallyPc \in {"wire", "read"} /\ tallyTampered = "none")
            => /\ Len(tallyBuf) = 33
               /\ SubSeq(tallyBuf, 1, 32) = tally.id
               /\ tallyBuf[33] = IF tally.payload = "Public" THEN 0 ELSE 1
    /\ (tallyPc = "read" /\ tallyTampered = "none")
            => /\ tallyRead.kind = "Ok"
               /\ tallyRead.value = tally
    /\ (tallyPc = "read" /\ Len(tallyBuf) = 33 /\ tallyBuf[33] \notin {0, 1})
            => tallyRead.kind = "StructureInvalid"

\* C9 witness: a Private tally was written and read back.
C9_Witness ==
    /\ tallyPc = "read"
    /\ tallyTampered = "none"
    /\ tally.payload = "Private"
    /\ tallyRead.kind = "Ok"

-----------------------------------------------------------------------------
(* Properties of the tally proof's framing.                                *)

\* Where the fields of a tally proof lie in its frame.
ProofIdAt == 1
ProofSignatureAt == ProofIdAt + COMMITTEE_ID_SIZE
ProofCountAt == ProofSignatureAt + SIGNATURE_SIZE

\* C11: serialize_in writes a Private proof as tag 1, the 32-byte committee
\* id, the signature bytes, the number of shares in eight bytes and then the
\* shares' bytes one after the other, and a Public proof as tag 0, committee
\* id and signature only; TallyProof::read, on any buffer whose tag is 1,
\* takes the single byte right after the signature as the share count and
\* reads that many shares after it (failing when the bytes run out), and on
\* any buffer whose tag is 0 reads committee id and signature and stops.
C11_ShareCountFraming ==
    /\ (proofPc \in {"wire", "read"} /\ proofWriter = "serialize_in"
            /\ proofTampered = "none") =>
          LET n == Len(proofValue.shares)
          IN  /\ proofBuf[1] = (IF proofValue.kind = "Private" THEN 1 ELSE 0)
              /\ SubSeq(proofBuf, ProofIdAt + 1, ProofSignatureAt) = proofValue.id
              /\ SubSeq(proofBuf, ProofSignatureAt + 1, ProofCountAt)
                    = proofValue.signature
              /\ proofValue.kind = "Public" => Len(proofBuf) = ProofCountAt
              /\ proofValue.kind = "Private" =>
                    /\ Len(proofBuf) = ProofCountAt + 8 + n * ShareSize
                    /\ \A i \in 1..7 : proofBuf[ProofCountAt + i] = 0
                    /\ proofBuf[ProofCountAt + 8] = n
                    /\ \A j \in 1..n :
                          SubSeq(proofBuf, ProofCountAt + 8 + (j - 1) * ShareSize + 1,
                                 ProofCountAt + 8 + j * ShareSize)
                             = proofValue.shares[j]
    /\ (proofPc = "read" /\ Len(proofBuf) > ProofCountAt /\ proofBuf[1] = 1) =>
          LET count == proofBuf[ProofCountAt + 1]
              after == ProofCountAt + 1
          IN  IF Len(proofBuf) >= after + count * ShareSize
              THEN /\ proofRead.kind = "Ok"
                   /\ proofRead.pos = after + count * ShareSize
                   /\ proofRead.value.kind = "Private"
                   /\ proofRead.value.id
                         = SubSeq(proofBuf, ProofIdAt + 1, ProofSignatureAt)
                   /\ proofRead.value.signature
                         = SubSeq(proofBuf, ProofSignatureAt + 1, ProofCountAt)
                   /\ Len(proofRead.value.shares) = count
                   /\ \A j \in 1..count :
                         proofRead.value.shares[j]
                            = SubSeq(proofBuf, after + (j - 1) * ShareSize + 1,
                                     after + j * ShareSize)
              ELSE proofRead.kind = "NotEnoughBytes"
    /\ (proofPc = "read" /\ Len(proofBuf) >= ProofCountAt /\ proofBuf[1] = 0) =>
          /\ proofRead.kind = "Ok"
          /\ proofRead.pos = ProofCountAt
          /\ proofRead.value
                = TallyProof_Public(SubSeq(proofBuf, ProofIdAt + 1, ProofSignatureAt),
                                    SubSeq(proofBuf, ProofSignatureAt + 1, ProofCountAt))

\* A Private proof with shares went through serialize_in and came back from
\* read untouched on the way: read took the first of the eight count bytes
\* for the count and stopped there, the shares unread behind the cursor.
C11_Witness ==
    /\ proofPc = "read"
    /\ proofWriter = "serialize_in" /\ proofTampered = "none"
    /\ proofValue.kind = "Private"
    /\ Len(proofValue.shares) = MaxShares
    /\ proofRead.kind = "Ok"
    /\ proofRead.value.shares = <<>>
    /\ proofRead.pos = ProofCountAt + 1
    /\ proofRead.pos < Len(proofBuf)

-----------------------------------------------------------------------------
(* Properties of the Genesis-Praos proof.                                  *)

\* C12: for a header with a GenesisPraos proof, verify_proof returns what
\* verifying kes_proof under kes_public_key over the bytes of Common returns:
\* for a header a leader signed, Success exactly when kes_public_key is still
\* the leader's key and Common is as signed, whatever vrf_public_key and
\* vrf_proof hold; every header that differs from it only in vrf_public_key
\* or vrf_proof gets the same outcome; and a header with proof None verifies
\* Success.
C12_PraosVrfUnchecked ==
    pc = "verified" =>
        /\ header.proof.kind = "None" => verdict = "Success"
        /\ header.proof.kind = "GenesisPraos" =>
              /\ verdict = (IF \E n \in DOMAIN signed :
                                  /\ SignatureBytes(n) = header.proof.kes_proof
                                  /\ signed[n].public_key = header.proof.kes_public_key
                                  /\ signed[n].msg = Common_serialize(header.common)
                            THEN "Success"
                            ELSE "Failed")
              /\ produced.scheme = "GenesisPraos" =>
                    verdict = (IF /\ header.proof.kes_public_key
                                        = PublicKeyOf(produced.key)
                                  /\ header.common = produced.common
                               THEN "Success"
                               ELSE "Failed")
              /\ produced.scheme = "none" => verdict = "Failed"
              /\ \A vrf_public_key \in VrfPublicKeys, vrf_proof \in VrfProofs :
                    Header_verify_proof(
                        Header(header.common,
                               [header.proof EXCEPT !.vrf_public_key = vrf_public_key,
                                                    !.vrf_proof = vrf_proof]))
                      = verdict

\* C12 witness: the VRF proof of a header a Genesis-Praos leader signed was
\* replaced by other bytes, and verify_proof still returned Success.
C12_Witness ==
    /\ pc = "verified"
    /\ produced.scheme = "GenesisPraos"
    /\ mutations = 1
    /\ header.proof.vrf_proof # Fill(VRF_PROOF_SIZE, 7)
    /\ header.proof.kes_public_key = PublicKeyOf(produced.key)
    /\ header.common = produced.common
    /\ verdict = "Success"

=============================================================================
